---- MODULE Spec2Model ----
(***************************************************************************)
(* Termux-CUE: the cue-sheet parser (core/parser.py), the album processor  *)
(* (core/processor.py) and the batch orchestrator (core/cli.py).           *)
(*                                                                         *)
(* The state machines of this module:                                      *)
(*   SpecParse    CueParser.parse run line by line over a bounded cue text;*)
(*   SpecIndex    the same over TRACK / INDEX 01 with bounded timestamps;  *)
(*   SpecResolve  the audio-file resolution of process_album_worker;       *)
(*   Spec         one round of Cli.run over a bounded list of album tasks. *)
(*                                                                         *)
(* Python dict objects are references: a track dict appended twice to      *)
(* tracks_data is ONE object seen at two positions.  Track dicts therefore *)
(* live in a heap `objs` and tracks_data holds indices into it.            *)
(***************************************************************************)
EXTENDS Integers, Sequences, FiniteSets, TLC

\* ------------------------------------------------------------------ bounds
MaxLines == 4
MaxTasks == 2
MaxTracks == 5
MaxFields == 4

\* ------------------------------------------------------- sentinel values
\* A dict key that is not present, and Python's None, for numeric fields
\* (times are counted in ticks and are >= 0) and for string fields.
Absent == -2
None == -1
NoNumber == -1
AbsentStr == "<absent>"
NoneStr == "<None>"

\* A file name, as os.path.splitext sees it: (root, extension).  NoFile is
\* the empty name '' that album_data.get('file', '') gives when unset.
FileName(base, ext) == [base |-> base, ext |-> ext]
NoFile == FileName("", "")

\* ================================================================ parser
\* A cue line after `re.match(r'^\s*(\w+)\s*(.*)')`: the command word and
\* its argument text, kept as the tokens the handlers look at.
\*   cmd    the command word, upper-cased ("" for a blank/unmatched line)
\*   num    TRACK: the leading digits of args as an int, NoNumber if none
\*   idx    INDEX: the first token of args
\*   nargs  number of whitespace-separated tokens of args
\*   ts     INDEX: the second token split on ':' (fields; -1 = not an int)
\*   quoted whether the text is inside double quotes
\*   text   TITLE/PERFORMER text, REM value
\*   key    REM key (upper-cased)
\*   file   FILE: the quoted text, else the first token, as a file name
Line(cmd, num, idx, nargs, ts, quoted, text, key, file) ==
  [cmd |-> cmd, num |-> num, idx |-> idx, nargs |-> nargs, ts |-> ts,
   quoted |-> quoted, text |-> text, key |-> key, file |-> file]

BlankLine == Line("", NoNumber, "", 0, <<>>, FALSE, "", "", NoFile)
TrackLineOf(n) == Line("TRACK", n, "", 2, <<>>, FALSE, "", "", NoFile)
IndexLineOf(idx, nargs, ts) ==
  Line("INDEX", NoNumber, idx, nargs, ts, FALSE, "", "", NoFile)
TextLineOf(cmd, quoted, text) ==
  Line(cmd, NoNumber, "", IF text = "" THEN 0 ELSE 1, <<>>, quoted, text, "", NoFile)
FileLineOf(quoted, file) ==
  Line("FILE", NoNumber, "", IF file = NoFile THEN 0 ELSE 2, <<>>, quoted, "", "", file)
RemLineOf(key, nargs, val) ==
  Line("REM", NoNumber, "", nargs, <<>>, FALSE, val, key, NoFile)

\* The cue lines the parser is run on.
TrackNumbers == {1, 2}
TimeStamps == { <<0, 0, 0>>, <<2, 3, 37>>, <<5, 0>> }
CueLines ==
  { TrackLineOf(n) : n \in TrackNumbers \cup {NoNumber} }
  \cup { IndexLineOf("01", 2, t) : t \in TimeStamps }
  \cup { IndexLineOf("00", 2, <<0, 1, 0>>) }
  \cup { TextLineOf("TITLE", TRUE, "T"), TextLineOf("PERFORMER", TRUE, "P"),
         FileLineOf(TRUE, FileName("x", ".wav")) }
  \cup { RemLineOf("REPLAYGAIN_ALBUM_GAIN", 2, "g"),
         RemLineOf("REPLAYGAIN_TRACK_GAIN", 2, "g") }
  \cup { BlankLine }

\* Times are floats in the code: m*60 + s + f/75.0 from a cue timestamp and
\* h*3600 + m*60 + s + hs/100.0 from the duration probe.  Both are kept
\* exactly, as integer counts of 1/300 s ticks (300 = lcm(75, 100)).
FramesPerSecond == 75
TicksPerSecond == 4 * FramesPerSecond
TicksPerFrame == TicksPerSecond \div FramesPerSecond

\* Taking the third field as hundredths of a second.
_parse_time_hundredths(t) ==
  IF Len(t) = 3 /\ \A k \in 1..3 : t[k] >= 0
  THEN (t[1] * 60 + t[2]) * TicksPerSecond + t[3] * 3
  ELSE 0
\* _parse_time: `m, s, f = map(int, t.split(':'))`; a wrong field count or a
\* non-integer field raises ValueError, which yields 0.0.
_parse_time(t) ==
  IF Len(t) = 3 /\ \A k \in 1..3 : t[k] >= 0
  THEN (t[1] * 60 + t[2]) * TicksPerSecond + t[3] * TicksPerFrame
  ELSE 0

\* The dict a numeric TRACK directive creates (parser.py line 49).
DefaultTitle(n) == [default |-> TRUE, n |-> n, s |-> ""]
TextTitle(s) == [default |-> FALSE, n |-> 0, s |-> s]
NewTrack(n, album) ==
  [number |-> n, performer |-> album.performer, title |-> DefaultTitle(n),
   start_time |-> Absent, end_time |-> Absent, rg |-> {}]

\* self.album_data = {} ; album_data.get('performer') of an empty dict is None.
EmptyAlbum == [file |-> NoFile, title |-> AbsentStr, performer |-> NoneStr, rg |-> {}]

\* The parser's state: current_track_info is a reference (0 = None) into objs.
ParserInit ==
  [current_track_info |-> 0, objs |-> <<>>, tracks_data |-> <<>>,
   album_data |-> EmptyAlbum]

\* Update of the dict current_track_info refers to.
SetCur(st, field, val) ==
  [st EXCEPT !.objs[st.current_track_info] =
     [st.objs[st.current_track_info] EXCEPT ![field] = val]]

\* command == 'TRACK' (lines 46-49): the track being built is appended
\* BEFORE the number is looked for; current_track_info is replaced only when
\* the argument starts with digits.
OnTrack(st, line) ==
  LET appended == IF st.current_track_info # 0
                  THEN [st EXCEPT !.tracks_data = Append(@, st.current_track_info)]
                  ELSE st
  IN IF line.num # NoNumber
     THEN [appended EXCEPT !.objs = Append(@, NewTrack(line.num, st.album_data)),
                           !.current_track_info = Len(st.objs) + 1]
     ELSE appended

\* Taking the FILE directive wherever it stands.
OnFileAnywhere(st, line) ==
  IF line.nargs > 0
  THEN [st EXCEPT !.album_data.file = line.file]
  ELSE st
\* command == 'FILE' (lines 50-57).
OnFile(st, line) ==
  IF st.current_track_info = 0 /\ line.nargs > 0
  THEN [st EXCEPT !.album_data.file = line.file]
  ELSE st

\* command == 'TITLE' (lines 58-61).
OnTitle(st, line) ==
  IF st.current_track_info # 0
  THEN SetCur(st, "title", TextTitle(line.text))
  ELSE [st EXCEPT !.album_data.title = line.text]

\* command == 'PERFORMER' (lines 62-65).
OnPerformer(st, line) ==
  IF st.current_track_info # 0
  THEN SetCur(st, "performer", line.text)
  ELSE [st EXCEPT !.album_data.performer = line.text]

\* command == 'INDEX' (lines 66-68).
OnIndex(st, line) ==
  IF st.current_track_info # 0 /\ line.idx = "01" /\ line.nargs > 1
  THEN SetCur(st, "start_time", _parse_time(line.ts))
  ELSE st

\* command == 'REM' (lines 69-75).
ReplayGainKeys == {"REPLAYGAIN_ALBUM_GAIN", "REPLAYGAIN_ALBUM_PEAK",
                   "REPLAYGAIN_TRACK_GAIN", "REPLAYGAIN_TRACK_PEAK"}
KeyHasTrack(k) == k \in {"REPLAYGAIN_TRACK_GAIN", "REPLAYGAIN_TRACK_PEAK"}
KeyHasAlbum(k) == k \in {"REPLAYGAIN_ALBUM_GAIN", "REPLAYGAIN_ALBUM_PEAK"}
OnRem(st, line) ==
  IF line.nargs = 2 /\ line.key \in ReplayGainKeys
  THEN IF st.current_track_info # 0 /\ KeyHasTrack(line.key)
       THEN SetCur(st, "rg", st.objs[st.current_track_info].rg \cup {line.key})
       ELSE IF st.current_track_info = 0 /\ KeyHasAlbum(line.key)
            THEN [st EXCEPT !.album_data.rg = @ \cup {line.key}]
            ELSE st
  ELSE st

\* One iteration of the `for line in ...` loop (lines 40-75).
ParseLine(st, line) ==
  CASE line.cmd = "TRACK" -> OnTrack(st, line)
    [] line.cmd = "FILE" -> OnFile(st, line)
    [] line.cmd = "TITLE" -> OnTitle(st, line)
    [] line.cmd = "PERFORMER" -> OnPerformer(st, line)
    [] line.cmd = "INDEX" -> OnIndex(st, line)
    [] line.cmd = "REM" -> OnRem(st, line)
    [] OTHER -> st

\* Lines 78-80: for i in range(len(tracks_data)), in order, writing through
\* the references.  Reading 'start_time' of a dict that has none raises
\* KeyError: the loop stops there with the earlier writes done.
RECURSIVE LinkEnds(_, _, _)
LinkEnds(objs, tracks, i) ==
  IF i > Len(tracks) THEN [raised |-> FALSE, objs |-> objs]
  ELSE IF i + 1 <= Len(tracks)
       THEN IF objs[tracks[i + 1]].start_time = Absent
            THEN [raised |-> TRUE, objs |-> objs]
            ELSE LinkEnds([objs EXCEPT ![tracks[i]].end_time =
                                          objs[tracks[i + 1]].start_time],
                          tracks, i + 1)
       ELSE LinkEnds([objs EXCEPT ![tracks[i]].end_time = None], tracks, i + 1)

\* Lines 76-81: what parse does after the loop.
ParseFinish(st) ==
  LET fin == IF st.current_track_info # 0
             THEN [st EXCEPT !.tracks_data = Append(@, st.current_track_info)]
             ELSE st
      linked == LinkEnds(fin.objs, fin.tracks_data, 1)
  IN IF fin.tracks_data = <<>>
     THEN [raised |-> FALSE, album |-> fin.album_data, tracks |-> <<>>, objs |-> fin.objs]
     ELSE [raised |-> linked.raised, album |-> fin.album_data,
           tracks |-> fin.tracks_data, objs |-> linked.objs]

\* CueParser.parse as a function of the lines (lines 37-81).
RECURSIVE ParseFrom(_, _, _)
ParseFrom(st, lines, i) ==
  IF i > Len(lines) THEN st ELSE ParseFrom(ParseLine(st, lines[i]), lines, i + 1)
parse(lines) ==
  IF lines = <<>>
  THEN [raised |-> FALSE, album |-> EmptyAlbum, tracks |-> <<>>, objs |-> <<>>]
  ELSE ParseFinish(ParseFrom(ParserInit, lines, 1))

\* ============================================================= resolver
\* SUPPORTED_AUDIO_EXTENSIONS (processor.py line 12).
SUPPORTED_AUDIO_EXTENSIONS == {".flac", ".wav", ".mp3", ".ape", ".wv", ".tak"}

\* str.lower() on the extensions that occur.
Lower(ext) ==
  CASE ext = ".FLAC" -> ".flac"
    [] ext = ".WAV" -> ".wav"
    [] ext = ".CUE" -> ".cue"
    [] OTHER -> ext

\* A directory entry, as os.listdir gives it: a name, which may be that of a
\* subdirectory (os.path.isfile is false for it).
Entry(base, ext, isdir) == [base |-> base, ext |-> ext, isdir |-> isdir]
EntryName(e) == FileName(e.base, e.ext)

\* os.path.isfile(os.path.join(source_dir, name)).
IsFile(listing, name) == \E e \in listing : EntryName(e) = name /\ ~e.isdir

\* Line 57: the entries whose root equals the task's root and whose lowered
\* extension is a supported one.
Candidates(listing, task_name) ==
  { e \in listing : e.base = task_name.base
                    /\ Lower(e.ext) \in SUPPORTED_AUDIO_EXTENSIONS }

\* Taking a candidate whenever there is at least one.
ResolveAudioAnyCandidate(expected_filename, task_name, listing) ==
  IF expected_filename # NoFile /\ IsFile(listing, expected_filename)
  THEN [ok |-> TRUE, file |-> expected_filename, count |-> 0]
  ELSE LET candidates == Candidates(listing, task_name)
       IN IF Cardinality(candidates) >= 1
          THEN [ok |-> TRUE, file |-> EntryName(CHOOSE e \in candidates : TRUE),
                count |-> 1]
          ELSE [ok |-> FALSE, file |-> NoFile, count |-> Cardinality(candidates)]

\* Stage 2 of process_album_worker (lines 51-60): the audio file's name
\* (what album_data['file'] becomes), or the failure with the count.
ResolveAudio(expected_filename, task_name, listing) ==
  IF expected_filename # NoFile /\ IsFile(listing, expected_filename)
  THEN [ok |-> TRUE, file |-> expected_filename, count |-> 0]
  ELSE LET candidates == Candidates(listing, task_name)
       IN IF Cardinality(candidates) = 1
          THEN [ok |-> TRUE, file |-> EntryName(CHOOSE e \in candidates : TRUE),
                count |-> 1]
          ELSE [ok |-> FALSE, file |-> NoFile, count |-> Cardinality(candidates)]

\* ======================================================= track splitter
\* What one engine call plus tag write can do: both succeed ("ok"), ffmpeg
\* exits non-zero ("ffmpeg", CalledProcessError), or ffmpeg succeeds and
\* mutagen raises ("tag").
EngineResults == {"ok", "ffmpeg", "tag"}

TrackDiag(number, kind) == [number |-> number, kind |-> kind]
NoTrackDiag == TrackDiag(0, "None")
Pending == [ok |-> FALSE, diag |-> TrackDiag(0, "pending")]

\* _process_single_track (lines 52-66): (True, None), or (False, message)
\* with the track's number in the message.  A track dict without
\* 'start_time' raises KeyError at line 57, inside the try, before ffmpeg.
_process_single_track(track, engine) ==
  IF track.start_time = Absent
  THEN [ok |-> FALSE, diag |-> TrackDiag(track.number, "unknown")]
  ELSE CASE engine = "ffmpeg" -> [ok |-> FALSE, diag |-> TrackDiag(track.number, "ffmpeg")]
         [] engine = "tag" -> [ok |-> FALSE, diag |-> TrackDiag(track.number, "unknown")]
         [] OTHER -> [ok |-> TRUE, diag |-> NoTrackDiag]

\* Lines 57-59: the ffmpeg command of a track: -ss start_time, and -to
\* end_time only when track_info.get('end_time') is not None.
Command(track) ==
  [ss |-> track.start_time,
   to |-> IF track.end_time \in {None, Absent} THEN None ELSE track.end_time]
NoCommand == [ss |-> Absent, to |-> Absent]

\* ======================================================= album processor
Min2(a, b) == IF a <= b THEN a ELSE b

\* The pool size without the cap of 4.
TrackPoolCoresUncapped(cpus, ntracks) == Min2(cpus, ntracks)
\* Line 84: cores = min(cpu_count(), len(tracks_data), 4).
TrackPoolCores(cpus, ntracks) == Min2(Min2(cpus, ntracks), 4)

\* Line 83: a track pool is made iff use_track_concurrency and > 1 track.
TrackPoolSize(use_track_concurrency, cpus, ntracks) ==
  IF use_track_concurrency /\ ntracks > 1 THEN TrackPoolCores(cpus, ntracks) ELSE 0

\* Line 78-79: the probe's `Duration: HH:MM:SS.hh`, in ticks.
HundredthsPerSecond == 100
ProbeDuration(d) ==
  (d[1] * 3600 + d[2] * 60 + d[3]) * TicksPerSecond
  + d[4] * (TicksPerSecond \div HundredthsPerSecond)

\* Lines 91-94: the album's result from the track results, in list order.
AlbumResult(ok, kind, tracks) == [ok |-> ok, kind |-> kind, tracks |-> tracks]
NoAlbumResult == AlbumResult(FALSE, "pending", <<>>)
FailedTracks(results) ==
  LET failed == SelectSeq(results, LAMBDA r : ~r.ok)
  IN [k \in 1..Len(failed) |-> failed[k].diag]
\* Reporting the first failed track only.
AlbumReturnFirstFailure(results) ==
  IF FailedTracks(results) # <<>>
  THEN AlbumResult(FALSE, "tracks", <<FailedTracks(results)[1]>>)
  ELSE AlbumResult(TRUE, "None", <<>>)
AlbumReturn(results) ==
  IF FailedTracks(results) # <<>>
  THEN AlbumResult(FALSE, "tracks", FailedTracks(results))
  ELSE AlbumResult(TRUE, "None", <<>>)

\* Line 69: re.sub(r'[\\/*?:"<>|]', "_", s), on the titles that occur.
Sanitize(s) ==
  CASE s = "T/1" -> "T_1"
    [] s = "T:1" -> "T_1"
    [] OTHER -> s
\* album_data.get('title', 'Untitled Album'), sanitized.
AlbumTitle(album) ==
  Sanitize(IF album.title = AbsentStr THEN "Untitled Album" ELSE album.title)
\* Line 69: output_path = os.path.join(source_dir, album_title); the
\* processor is built with no output_dir (cli.py line 27).
OutputPath(dir, album) == [dir |-> dir, name |-> AlbumTitle(album)]
NoPath == [dir |-> "", name |-> ""]

\* Line 56: f"{number:02d}", as its digits (numbers below 100).
TwoDigits(n) == <<n \div 10, n % 10>>
\* Line 56: the sanitized track title; the title synthesized at parser.py
\* line 49 holds no character that is replaced.
SafeTrackTitle(title) ==
  IF title.default THEN title ELSE TextTitle(Sanitize(title.s))
\* Line 56: os.path.join(output_dir, "NN - <title><ext>"), the extension
\* being the input file's, lower-cased.
OutputFilePath(track, input_file, output_dir) ==
  [dir |-> output_dir, nn |-> TwoDigits(track.number),
   title |-> SafeTrackTitle(track.title), ext |-> Lower(input_file.ext)]
NoOutputFile == [dir |-> NoPath, nn |-> <<>>, title |-> TextTitle(""), ext |-> ""]

\* ====================================================== batch orchestrator
\* A BatchTaskOutcome (success, task_name, message); the message is kept as
\* its kind, the candidate count and the track diagnostics it embeds.
Outcome(ok, name, kind, count, tracks) ==
  [ok |-> ok, name |-> name, kind |-> kind, count |-> count, tracks |-> tracks]
NoOutcome == Outcome(FALSE, NoFile, "pending", 0, <<>>)

\* Line 144.
is_concurrent(ts) == Len(ts) > 1
\* Line 146: cores = min(cpu_count(), len(tasks), 4).
AlbumPoolCores(cpus, ntasks) == Min2(Min2(cpus, ntasks), 4)
\* Passing True in both modes.
AlwaysTrackConcurrency(ts) == TRUE
\* The flag of worker_args: False at line 146, True at line 152.
UseTrackConcurrency(ts) == ~is_concurrent(ts)
\* The worker without its check of line 48.
EmptyTracksNotChecked(tracks) == FALSE
\* Line 48: `if not tracks_data`.
EmptyTracksRejected(tracks) == tracks = <<>>
\* The handler reporting its log prefix in place of the task name.
WorkerCatchWithPrefix(name) ==
  Outcome(FALSE, FileName("[P]" \o name.base, name.ext), "unknown", 0, <<>>)
\* Lines 69-70: the wrapper's `except Exception`.
WorkerCatch(name) == Outcome(FALSE, name, "unknown", 0, <<>>)
\* Lines 65-68: the outcome from process_album's return value.
WorkerResult(name, r) ==
  IF r.ok THEN Outcome(TRUE, name, "None", 0, <<>>)
  ELSE Outcome(FALSE, name, "split_failed:" \o r.kind, 0, r.tracks)

\* ------------------------------------------------------- the environment
\* Cue texts an album task may carry.
RECURSIVE TrackBlocks(_)
TrackBlocks(k) ==
  IF k = 0 THEN <<>>
  ELSE TrackBlocks(k - 1) \o <<TrackLineOf(k), IndexLineOf("01", 2, <<0, k, 0>>)>>
CueOf(k) == <<TextLineOf("TITLE", TRUE, "T")>> \o TrackBlocks(k)
DuplicatingCue ==
  <<TrackLineOf(1), IndexLineOf("01", 2, <<0, 0, 0>>), TrackLineOf(NoNumber)>>
RaisingCue == <<TrackLineOf(1), TrackLineOf(2)>>
NoIndexCue == <<TrackLineOf(1)>>
\* A one-track album whose title holds a character line 69 replaces.
UnsafeTitleCue == <<TextLineOf("TITLE", TRUE, "T/1")>> \o TrackBlocks(1)
\* The only album of a round has up to MaxTracks tracks; the albums of a
\* round of two have up to two each, those of a larger round one each.
TracksPerAlbum(ntasks) ==
  IF ntasks = 1 THEN MaxTracks ELSE IF ntasks = 2 THEN 2 ELSE 1
CueTexts(ntasks) ==
  { CueOf(k) : k \in 0..TracksPerAlbum(ntasks) }
  \cup {RaisingCue, NoIndexCue, UnsafeTitleCue}
  \cup (IF TracksPerAlbum(ntasks) >= 2 THEN {DuplicatingCue} ELSE {})

TaskBases == <<"a1", "a2", "a3", "a4", "a5", "a6">>
\* Directory listings an album task may find at resolution time; the task's
\* own file is always there.
Listings(task) ==
  { {Entry(task.base, task.ext, FALSE)} \cup extra :
      extra \in { {},
                  {Entry(task.base, ".wav", FALSE)},
                  {Entry(task.base, ".wav", FALSE), Entry(task.base, ".mp3", FALSE)} } }
CpuCounts == {1, 2, 8}
\* The directories of a round's tasks (os.walk, lines 98-112): the tasks
\* are all found in one directory, or each in a directory of its own.
DirNames == <<"d1", "d2", "d3", "d4", "d5", "d6">>
SourceDirLists(ntasks) ==
  { [i \in 1..ntasks |-> DirNames[1]], [i \in 1..ntasks |-> DirNames[i]] }
ProbeOutputs == { <<>>, <<0, 5, 0, 50>> }

\* =============================================== resolver state machine
\* Stage 2 of process_album_worker alone, over the directories and album
\* records it may meet.
VARIABLES expected_filename, task_name, source_listing, resolved, rpc

rvars == <<expected_filename, task_name, source_listing, resolved, rpc>>

NoResolution == [ok |-> FALSE, file |-> NoFile, count |-> -1]
ResolveIdle ==
  /\ expected_filename = NoFile /\ task_name = NoFile /\ source_listing = {}
  /\ resolved = NoResolution /\ rpc = "idle"

\* ================================================== batch state machine
\* One round of Cli.run (lines 143-164) over `tasks`.
\*   w[i]         the locals of process_album_worker / process_album for
\*                task i: pc, album_data, tracks_data (references into
\*                objs), the track pool size (0 = none), the track jobs'
\*                states and results, process_album's return value, the
\*                track dicts as parse returned them (parsed), the probe's
\*                regex match (dur_match) and the ffmpeg command of each
\*                started job (jcmd), the list positions named by the
\*                progress lines of line 89 (progress), the output
\*                file path of each started job (jout)
\*   outcome[i]   the worker's return value
\*   results      the list Cli.run aggregates
\*   album_pool   size of the album pool (0 = none)
\*   source_dir[i]  os.path.dirname of task i's path (tasks[i] is its
\*                basename)
\* Bookkeeping of what happened, for the properties:
\*   failed[i]    the stage at which task i failed ("none" if it did not)
\*   fx[i]        the stages of task i that touched the file system/engine
\*   produced[i]  the track jobs of task i whose output file was written
\*   empty_parse[i]  parse returned an empty track list for task i
\*   done_order   the tasks in the order their workers returned
VARIABLES tasks, source_dir, cpu_count, bpc, album_pool, w, outcome, failed, fx, produced,
          empty_parse, done_order, results, success_count, error_logs, log,
          summary

bvars == <<tasks, source_dir, cpu_count, bpc, album_pool, w, outcome, failed, fx, produced,
           empty_parse, done_order, results, success_count, error_logs, log,
           summary>>

NoSummary == [success |-> -1, failure |-> -1]
IdleWorker ==
  [pc |-> "queued", album |-> EmptyAlbum, tracks |-> <<>>, objs |-> <<>>,
   pool |-> 0, jst |-> <<>>, jres |-> <<>>, ret |-> NoAlbumResult,
   output_path |-> NoPath, parsed |-> <<>>, dur_match |-> <<>>, jcmd |-> <<>>,
   progress |-> <<>>, jout |-> <<>>]
DoneWorker == [IdleWorker EXCEPT !.pc = "done"]

BatchIdle ==
  /\ tasks = <<>> /\ source_dir = <<>> /\ cpu_count = 1 /\ bpc = "idle" /\ album_pool = 0
  /\ w = <<>> /\ outcome = <<>> /\ failed = <<>> /\ fx = <<>> /\ produced = <<>>
  /\ empty_parse = <<>> /\ done_order = <<>> /\ results = <<>>
  /\ success_count = 0 /\ error_logs = <<>> /\ log = <<>> /\ summary = NoSummary

\* ------------------------------------------------- parser state machine
VARIABLES cue_content_lines, lineNo, pst, ppc, ret

pvars == <<cue_content_lines, lineNo, pst, ppc, ret>>
vars == <<pvars, rvars, bvars>>

NoReturn == [raised |-> FALSE, album |-> EmptyAlbum, tracks |-> <<>>, objs |-> <<>>]

RECURSIVE SeqsUpTo(_, _)
SeqsUpTo(S, n) ==
  IF n = 0 THEN { <<>> }
  ELSE LET shorter == SeqsUpTo(S, n - 1)
       IN shorter \cup { Append(s, x) : s \in { t \in shorter : Len(t) = n - 1 }, x \in S }

ParseIdle ==
  /\ cue_content_lines = <<>> /\ lineNo = 1 /\ pst = ParserInit
  /\ ppc = "idle" /\ ret = NoReturn

InitParse ==
  /\ BatchIdle /\ ResolveIdle
  /\ cue_content_lines \in SeqsUpTo(CueLines, MaxLines)
  /\ lineNo = 1
  /\ pst = ParserInit
  /\ ppc = "loop"
  /\ ret = NoReturn

\* `if not self.cue_content_lines: return {}, []` (line 38).
ParseEmpty ==
  /\ ppc = "loop" /\ cue_content_lines = <<>>
  /\ ppc' = "returned"
  /\ ret' = parse(cue_content_lines)
  /\ UNCHANGED <<cue_content_lines, lineNo, pst, rvars, bvars>>

StepLine(cmd) ==
  /\ ppc = "loop" /\ lineNo <= Len(cue_content_lines)
  /\ cue_content_lines[lineNo].cmd = cmd
  /\ pst' = ParseLine(pst, cue_content_lines[lineNo])
  /\ lineNo' = lineNo + 1
  /\ UNCHANGED <<cue_content_lines, ppc, ret, rvars, bvars>>

TrackStep == StepLine("TRACK")
FileStep == StepLine("FILE")
TitleStep == StepLine("TITLE")
PerformerStep == StepLine("PERFORMER")
IndexStep == StepLine("INDEX")
RemStep == StepLine("REM")
SkipStep == StepLine("")

ParseReturn ==
  /\ ppc = "loop" /\ cue_content_lines # <<>> /\ lineNo > Len(cue_content_lines)
  /\ ret' = ParseFinish(pst)
  /\ ppc' = IF ParseFinish(pst).raised THEN "raised" ELSE "returned"
  /\ UNCHANGED <<cue_content_lines, lineNo, pst, rvars, bvars>>

NextParse ==
  \/ ParseEmpty
  \/ TrackStep
  \/ FileStep
  \/ TitleStep
  \/ PerformerStep
  \/ IndexStep
  \/ RemStep
  \/ SkipStep
  \/ ParseReturn

SpecParse == InitParse /\ [][NextParse]_vars

\* ------------------------------------------- INDEX lines: inputs and steps
\* The parser run over `TRACK 01 AUDIO / INDEX 01 <timestamp>` for every
\* timestamp of up to MaxFields colon-separated fields (-1: not an integer).
TimeFieldValues == {-1, 0, 2, 3, 37, 74}
IndexCues ==
  { <<TrackLineOf(1), IndexLineOf("01", 2, ts)>> :
      ts \in SeqsUpTo(TimeFieldValues, MaxFields) }

InitIndex ==
  /\ BatchIdle /\ ResolveIdle
  /\ cue_content_lines \in IndexCues
  /\ lineNo = 1
  /\ pst = ParserInit
  /\ ppc = "loop"
  /\ ret = NoReturn

NextIndex ==
  \/ TrackStep
  \/ IndexStep
  \/ ParseReturn

SpecIndex == InitIndex /\ [][NextIndex]_vars

\* final_tasks.sort() (line 112): distinct paths in ascending order; the
\* first may be a FLAC file with an embedded cue sheet, the others are cue
\* files.
TaskLists ==
  { [i \in 1..n |-> FileName(TaskBases[i], IF i = flac THEN ".flac" ELSE ".cue")] :
      n \in 1..MaxTasks, flac \in {0, 1} }

Init ==
  /\ tasks \in TaskLists
  /\ source_dir \in SourceDirLists(Len(tasks))
  /\ cpu_count \in CpuCounts
  /\ bpc = "dispatch"
  /\ album_pool = 0
  /\ w = [i \in 1..Len(tasks) |-> IdleWorker]
  /\ outcome = [i \in 1..Len(tasks) |-> NoOutcome]
  /\ failed = [i \in 1..Len(tasks) |-> "none"]
  /\ fx = [i \in 1..Len(tasks) |-> {}]
  /\ produced = [i \in 1..Len(tasks) |-> {}]
  /\ empty_parse = [i \in 1..Len(tasks) |-> FALSE]
  /\ done_order = <<>>
  /\ results = <<>>
  /\ success_count = 0
  /\ error_logs = <<>>
  /\ log = <<>>
  /\ summary = NoSummary
  /\ ParseIdle /\ ResolveIdle

N == Len(tasks)
Tasks == 1..N
Active == { i \in Tasks : w[i].pc \notin {"queued", "done"} }
\* The workers that may run at once: the pool's processes (line 148), or the
\* one caller of the sequential loop (lines 151-152).
AlbumSlots == IF album_pool > 0 THEN album_pool ELSE 1

\* A worker returns `out`: its locals are gone, the outcome is kept.
Return(i, stage, out) ==
  /\ w' = [w EXCEPT ![i] = DoneWorker]
  /\ outcome' = [outcome EXCEPT ![i] = out]
  /\ failed' = [failed EXCEPT ![i] = stage]
  /\ done_order' = Append(done_order, i)

\* An exception inside the worker's try block (lines 26-70).
Raise(i, stage) == Return(i, stage, WorkerCatch(tasks[i]))

world == <<tasks, source_dir, cpu_count, bpc, album_pool, results, success_count,
           error_logs, log, summary, pvars, rvars>>

\* Lines 143-148: choose the mode; make the album pool when concurrent.
Dispatch ==
  /\ bpc = "dispatch"
  /\ album_pool' = IF is_concurrent(tasks) THEN AlbumPoolCores(cpu_count, N) ELSE 0
  /\ bpc' = "run"
  /\ UNCHANGED <<pvars, rvars, tasks, source_dir, cpu_count, w, outcome, failed, fx, produced, empty_parse,
                 done_order, results, success_count, error_logs, log, summary>>

\* A pool process (or the sequential loop) takes the next task (lines 21-25).
StartWorker(i) ==
  /\ bpc = "run" /\ w[i].pc = "queued"
  /\ \A j \in 1..(i - 1) : w[j].pc # "queued"
  /\ Cardinality(Active) < AlbumSlots
  /\ w' = [w EXCEPT ![i].pc = "parse"]
  /\ UNCHANGED <<world, outcome, failed, fx, produced, empty_parse, done_order>>

\* After parser.parse() returned (lines 39-40 or 47, then 48).
AfterParse(i, parsed, album) ==
  IF parsed.raised
  THEN Raise(i, "parse") /\ UNCHANGED empty_parse
  ELSE /\ empty_parse' = [empty_parse EXCEPT ![i] = (parsed.tracks = <<>>)]
       /\ IF EmptyTracksRejected(parsed.tracks)
          THEN Return(i, "parse", Outcome(FALSE, tasks[i], "no_tracks", 0, <<>>))
          ELSE /\ w' = [w EXCEPT ![i].pc = "resolve", ![i].album = album,
                                 ![i].tracks = parsed.tracks, ![i].objs = parsed.objs,
                                 ![i].parsed = parsed.objs]
               /\ UNCHANGED <<outcome, failed, done_order>>

\* Stage 1 for a FLAC task (lines 32-44).
ParseEmbedded(i) ==
  /\ w[i].pc = "parse" /\ Lower(tasks[i].ext) = ".flac"
  /\ \/ /\ Return(i, "parse", Outcome(FALSE, tasks[i], "not_flac", 0, <<>>))
        /\ UNCHANGED empty_parse
     \/ /\ Return(i, "parse", Outcome(FALSE, tasks[i], "no_embedded_cue", 0, <<>>))
        /\ UNCHANGED empty_parse
     \/ \E lines \in CueTexts(N) :
          LET parsed == parse(lines)
          IN AfterParse(i, parsed, [parsed.album EXCEPT !.file = tasks[i]])
  /\ UNCHANGED <<world, fx, produced>>

\* Stage 1 for a cue file (lines 46-48); the file may have vanished
\* (FileNotFoundError, line 15) or be empty.
ParseCueFile(i) ==
  /\ w[i].pc = "parse" /\ Lower(tasks[i].ext) # ".flac"
  /\ \/ Raise(i, "parse") /\ UNCHANGED empty_parse
     \/ \E lines \in CueTexts(N) \cup { <<>> } :
          LET parsed == parse(lines) IN AfterParse(i, parsed, parsed.album)
  /\ UNCHANGED <<world, fx, produced>>

\* Stage 2 (lines 50-60).
Resolve(i) ==
  /\ w[i].pc = "resolve"
  /\ fx' = [fx EXCEPT ![i] = @ \cup {"resolve"}]
  /\ \E listing \in Listings(tasks[i]) :
       LET r == ResolveAudio(w[i].album.file, tasks[i], listing)
       IN IF r.ok
          THEN /\ w' = [w EXCEPT ![i].pc = "process_album", ![i].album.file = r.file]
               /\ UNCHANGED <<outcome, failed, done_order>>
          ELSE Return(i, "resolve",
                      Outcome(FALSE, tasks[i], "no_unique_audio", r.count, <<>>))
  /\ UNCHANGED <<world, produced, empty_parse>>

\* process_album, lines 69-75: makedirs (which may raise OSError), then
\* the empty-list check.
BeginAlbum(i) ==
  /\ w[i].pc = "process_album"
  /\ fx' = [fx EXCEPT ![i] = @ \cup {"mkdir"}]
  /\ \/ Raise(i, "split")
     \/ /\ w' = IF w[i].tracks = <<>>
                THEN [w EXCEPT ![i].pc = "albumret",
                               ![i].output_path = OutputPath(source_dir[i], w[i].album),
                               ![i].ret = AlbumResult(FALSE, "empty", <<>>)]
                ELSE [w EXCEPT ![i].pc = "probe",
                               ![i].output_path = OutputPath(source_dir[i], w[i].album)]
        /\ UNCHANGED <<outcome, failed, done_order>>
  /\ UNCHANGED <<world, produced, empty_parse>>

\* Line 77: the duration probe starts (an engine invocation).
ProbeStart(i) ==
  /\ w[i].pc = "probe"
  /\ w' = [w EXCEPT ![i].pc = "probing"]
  /\ fx' = [fx EXCEPT ![i] = @ \cup {"probe"}]
  /\ UNCHANGED <<world, outcome, failed, produced, empty_parse, done_order>>

\* Lines 78-85/87: the probe ended; on a match the last track's end_time
\* is overwritten; the job list is built and the pool made if asked for.
ProbeEnd(i) ==
  /\ w[i].pc = "probing"
  /\ \E d \in ProbeOutputs :
       LET last == w[i].tracks[Len(w[i].tracks)]
           objs == IF d # <<>>
                   THEN [w[i].objs EXCEPT ![last].end_time = ProbeDuration(d)]
                   ELSE w[i].objs
           n == Len(w[i].tracks)
       IN w' = [w EXCEPT ![i].pc = "split", ![i].objs = objs, ![i].dur_match = d,
                         ![i].jcmd = [j \in 1..n |-> NoCommand],
                         ![i].jout = [j \in 1..n |-> NoOutputFile],
                         ![i].pool = TrackPoolSize(UseTrackConcurrency(tasks),
                                                   cpu_count, n),
                         ![i].jst = [j \in 1..n |-> "wait"],
                         ![i].jres = [j \in 1..n |-> Pending]]
  /\ UNCHANGED <<world, outcome, failed, fx, produced, empty_parse, done_order>>

Running(i) == { j \in 1..Len(w[i].jst) : w[i].jst[j] = "run" }
TrackSlots(i) == IF w[i].pool > 0 THEN w[i].pool ELSE 1
\* Giving up on the remaining jobs once one has failed.
CanStartTrackUnlessFailed(i, j) ==
  /\ w[i].jst[j] = "wait"
  /\ \A k \in 1..(j - 1) : w[i].jst[k] # "wait"
  /\ Cardinality(Running(i)) < TrackSlots(i)
  /\ \A k \in 1..(j - 1) : w[i].jst[k] = "done" => w[i].jres[k].ok
\* Jobs are taken in list order (pool.map's queue, or the loop of lines
\* 88-90); a job starts when a process is free, whatever the earlier jobs
\* returned.
CanStartTrack(i, j) ==
  /\ w[i].jst[j] = "wait"
  /\ \A k \in 1..(j - 1) : w[i].jst[k] # "wait"
  /\ Cardinality(Running(i)) < TrackSlots(i)

\* The progress line of line 89, printed by the sequential loop only.
ProgressLines(i, j) ==
  IF w[i].pool = 0 THEN Append(w[i].progress, j) ELSE w[i].progress

\* Line 89 in sequential mode, then _process_single_track up to the ffmpeg
\* call (lines 53-60).
TrackStart(i, j) ==
  /\ w[i].pc = "split" /\ j \in 1..Len(w[i].jst)
  /\ CanStartTrack(i, j)
  /\ LET track == w[i].objs[w[i].tracks[j]]
     IN IF track.start_time = Absent
        THEN w' = [w EXCEPT ![i].jst[j] = "done",
                            ![i].jres[j] = _process_single_track(track, "ok"),
                            ![i].progress = ProgressLines(i, j)]
        ELSE w' = [w EXCEPT ![i].jst[j] = "run", ![i].jcmd[j] = Command(track),
                            ![i].jout[j] = OutputFilePath(track, w[i].album.file,
                                                          w[i].output_path),
                            ![i].progress = ProgressLines(i, j)]
  /\ fx' = [fx EXCEPT ![i] = @ \cup {"split"}]
  /\ UNCHANGED <<world, outcome, failed, produced, empty_parse, done_order>>

\* ffmpeg returned, tags were written or not (lines 60-66).
TrackEnd(i, j) ==
  /\ w[i].pc = "split" /\ j \in 1..Len(w[i].jst)
  /\ w[i].jst[j] = "run"
  /\ \E engine \in EngineResults :
       /\ w' = [w EXCEPT ![i].jst[j] = "done",
                         ![i].jres[j] =
                           _process_single_track(w[i].objs[w[i].tracks[j]], engine)]
       /\ produced' = [produced EXCEPT ![i] = IF engine = "ffmpeg" THEN @ ELSE @ \cup {j}]
  /\ UNCHANGED <<world, outcome, failed, fx, empty_parse, done_order>>

\* Lines 91-94: every job has returned; process_album returns.
AlbumJoin(i) ==
  /\ w[i].pc = "split"
  /\ \A j \in 1..Len(w[i].jst) : w[i].jst[j] = "done"
  /\ w' = [w EXCEPT ![i].pc = "albumret", ![i].ret = AlbumReturn(w[i].jres)]
  /\ UNCHANGED <<world, outcome, failed, fx, produced, empty_parse, done_order>>

\* Lines 63-68: the worker returns the album's outcome.
WorkerReturn(i) ==
  /\ w[i].pc = "albumret"
  /\ Return(i, IF w[i].ret.ok THEN "none" ELSE "split", WorkerResult(tasks[i], w[i].ret))
  /\ UNCHANGED <<world, fx, produced, empty_parse>>

\* Collecting the outcomes as the workers return.
CompletionOrderResults == [k \in 1..Len(done_order) |-> outcome[done_order[k]]]
\* pool.map (line 148) and the loop of lines 151-152 both give the
\* outcomes in task order.
MapResults == [i \in Tasks |-> outcome[i]]

\* Going on as soon as one worker has returned.
RoundCompleteAtFirstResult == \E i \in Tasks : w[i].pc = "done"
\* pool.map blocks until every worker has returned (line 148); the loop of
\* lines 151-152 ends after its last call.
RoundComplete == \A i \in Tasks : w[i].pc = "done"

\* The round's join: every worker has returned.
Join ==
  /\ bpc = "run"
  /\ RoundComplete
  /\ results' = MapResults
  /\ bpc' = "aggregate"
  /\ UNCHANGED <<pvars, rvars, tasks, source_dir, cpu_count, album_pool, w, outcome, failed, fx, produced,
                 empty_parse, done_order, success_count, error_logs, log, summary>>

\* Lines 154-157.
ErrorLogs(rs) ==
  LET bad == SelectSeq(rs, LAMBDA r : ~r.ok)
  IN [k \in 1..Len(bad) |-> [album |-> bad[k].name, message |-> bad[k]]]
Aggregate ==
  /\ bpc = "aggregate"
  /\ success_count' = Cardinality({ i \in 1..Len(results) : results[i].ok })
  /\ error_logs' = ErrorLogs(results)
  /\ bpc' = IF ErrorLogs(results) # <<>> THEN "log" ELSE "summary"
  /\ UNCHANGED <<pvars, rvars, tasks, source_dir, cpu_count, album_pool, w, outcome, failed, fx, produced,
                 empty_parse, done_order, results, log, summary>>

\* Lines 158-161: append one section to cue_splitter_error.log; open() or
\* write() may raise OSError, which leaves Cli.run.
WriteLog ==
  /\ bpc = "log"
  /\ \/ log' = Append(log, error_logs) /\ bpc' = "summary"
     \/ log' = log /\ bpc' = "crashed"
  /\ UNCHANGED <<pvars, rvars, tasks, source_dir, cpu_count, album_pool, w, outcome, failed, fx, produced,
                 empty_parse, done_order, results, success_count, error_logs, summary>>

\* Lines 162-164.
Summary ==
  /\ bpc = "summary"
  /\ summary' = [success |-> success_count, failure |-> Len(tasks) - success_count]
  /\ bpc' = "ended"
  /\ UNCHANGED <<pvars, rvars, tasks, source_dir, cpu_count, album_pool, w, outcome, failed, fx, produced,
                 empty_parse, done_order, results, success_count, error_logs, log>>

Next ==
  \/ Dispatch
  \/ \E i \in Tasks : StartWorker(i)
  \/ \E i \in Tasks : ParseEmbedded(i)
  \/ \E i \in Tasks : ParseCueFile(i)
  \/ \E i \in Tasks : Resolve(i)
  \/ \E i \in Tasks : BeginAlbum(i)
  \/ \E i \in Tasks : ProbeStart(i)
  \/ \E i \in Tasks : ProbeEnd(i)
  \/ \E i \in Tasks : \E j \in 1..Len(w[i].jst) : TrackStart(i, j)
  \/ \E i \in Tasks : \E j \in 1..Len(w[i].jst) : TrackEnd(i, j)
  \/ \E i \in Tasks : AlbumJoin(i)
  \/ \E i \in Tasks : WorkerReturn(i)
  \/ Join
  \/ Aggregate
  \/ WriteLog
  \/ Summary

Spec == Init /\ [][Next]_vars

\* Every blocking call returns (the engine, the probe, the pool's join): a
\* step that can be taken is eventually taken.
FairSpec == Spec /\ WF_vars(Next)

\* ------------------------------------------- resolver: inputs and step
ResolveEntries ==
  { Entry("a", ".flac", FALSE), Entry("a", ".flac", TRUE), Entry("a", ".FLAC", FALSE),
    Entry("a", ".wav", FALSE), Entry("a", ".txt", FALSE), Entry("b", ".flac", FALSE),
    Entry("x", ".wav", FALSE), Entry("x", ".wav", TRUE) }
\* A directory holds one entry per name, and the cue sheet being processed.
ResolveListings ==
  { l \cup {Entry("a", ".cue", FALSE)} :
      l \in { m \in SUBSET ResolveEntries :
                \A e, f \in m : EntryName(e) = EntryName(f) => e = f } }
ExpectedNames == { NoFile, FileName("x", ".wav"), FileName("a", ".txt"),
                  FileName("a", ".flac") }

InitResolve ==
  /\ expected_filename \in ExpectedNames
  /\ task_name = FileName("a", ".cue")
  /\ source_listing \in ResolveListings
  /\ resolved = NoResolution
  /\ rpc = "resolve"
  /\ ParseIdle /\ BatchIdle

\* Lines 51-60.
ResolveStep ==
  /\ rpc = "resolve"
  /\ resolved' = ResolveAudio(expected_filename, task_name, source_listing)
  /\ rpc' = IF ResolveAudio(expected_filename, task_name, source_listing).ok
            THEN "resolved" ELSE "failed"
  /\ UNCHANGED <<expected_filename, task_name, source_listing, pvars, bvars>>

NextResolve == ResolveStep
SpecResolve == InitResolve /\ [][NextResolve]_vars

\* ------------------------------------------------------- parser claims
TrackDirectives(lines) == SelectSeq(lines, LAMBDA l : l.cmd = "TRACK")
RetTrack(i) == ret.objs[ret.tracks[i]]

\* C1: for any cue text with K TRACK directives, parse returns exactly K
\* track records, the i-th record being the one of the i-th TRACK directive,
\* with ascending track numbers.
C1_OneRecordPerTrackDirective ==
  ppc # "loop" =>
    LET dirs == TrackDirectives(cue_content_lines)
    IN /\ ppc = "returned"
       /\ Len(ret.tracks) = Len(dirs)
       /\ \A i \in 1..Len(dirs) : RetTrack(i).number = dirs[i].num
       /\ \A i \in 1..(Len(ret.tracks) - 1) : RetTrack(i).number < RetTrack(i + 1).number

\* What the code does give (not a claim of the list): on a cue text whose
\* TRACK directives all carry a number, in ascending order, each with an
\* INDEX 01 line in its block, the statement of C1 holds.
HasIndex01(lines, i) ==
  \E k \in (i + 1)..Len(lines) :
    /\ lines[k].cmd = "INDEX" /\ lines[k].idx = "01" /\ lines[k].nargs > 1
    /\ \A m \in (i + 1)..k : lines[m].cmd # "TRACK"
WellFormedCue(lines) ==
  LET dirs == TrackDirectives(lines)
  IN /\ \A i \in 1..Len(dirs) : dirs[i].num # NoNumber
     /\ \A i \in 1..(Len(dirs) - 1) : dirs[i].num < dirs[i + 1].num
     /\ \A i \in 1..Len(lines) : lines[i].cmd = "TRACK" => HasIndex01(lines, i)
OneRecordPerTrackOnWellFormedCue ==
  WellFormedCue(cue_content_lines) => C1_OneRecordPerTrackDirective

\* C2: after parse returns K >= 1 tracks, tracks[i].end_time equals
\* tracks[i+1].start_time for every i < K-1 and tracks[K-1].end_time is None.
C2_EndTimeIsNextStartTime ==
  (ppc = "returned" /\ Len(ret.tracks) >= 1) =>
    /\ \A i \in 1..(Len(ret.tracks) - 1) : RetTrack(i).end_time = RetTrack(i + 1).start_time
    /\ RetTrack(Len(ret.tracks)).end_time = None

\* The same, on the returns in which no track dict occurs twice.
NoDuplicateRecord == \A i, j \in 1..Len(ret.tracks) : ret.tracks[i] = ret.tracks[j] => i = j
EndTimeIsNextStartTimeWithoutDuplicates ==
  NoDuplicateRecord => C2_EndTimeIsNextStartTime

\* -------------------------------------------------------- batch claims
Collected == bpc \in {"aggregate", "log", "summary", "ended", "crashed"}
Aggregated == bpc \in {"log", "summary", "ended", "crashed"}
OkCount == Cardinality({ i \in 1..Len(results) : results[i].ok })
BadCount == Cardinality({ i \in 1..Len(results) : ~results[i].ok })

\* C3: whatever stage a task fails or raises in, the round ends with one
\* outcome per task; a failing task's outcome is (False, its own name, a
\* diagnostic); every task that did not fail itself is a success with its
\* output written, whatever the other tasks did; successes + failures = N.
C3_FailureIsolation ==
  /\ Collected =>
       /\ Len(results) = N
       /\ \A i \in Tasks :
            /\ results[i].name = tasks[i]
            /\ failed[i] # "none" => (~results[i].ok /\ results[i].kind # "None")
            /\ failed[i] = "none" => (results[i].ok /\ produced[i] # {})
  /\ Aggregated =>
       /\ success_count = OkCount
       /\ Len(error_logs) = BadCount
       /\ \A k \in 1..Len(error_logs) : ~error_logs[k].message.ok
  /\ bpc = "ended" =>
       /\ summary.success = OkCount /\ summary.failure = BadCount
       /\ summary.success + summary.failure = N

\* A round of several albums in which the last failed at resolution (two
\* candidates) and the first succeeded, and the summary was given.
C3_Witness ==
  /\ bpc = "ended" /\ N > 1
  /\ failed[N] = "resolve" /\ results[N].kind = "no_unique_audio" /\ results[N].count = 2
  /\ results[1].ok /\ produced[1] # {}
  /\ summary.success = N - 1 /\ summary.failure = 1

\* The k-th failed job of a result list, in list order.
FailedJobs(jres) == { j \in 1..Len(jres) : ~jres[j].ok }
KthFailed(jres, k) ==
  CHOOSE j \in FailedJobs(jres) :
    Cardinality({ x \in FailedJobs(jres) : x < j }) = k - 1

\* C4: process_album returns success iff every track job returned success;
\* on failure its diagnostic holds the diagnostic of every failed job, in
\* track-list order.
C4_AlbumResultIsConjunction ==
  \A i \in Tasks :
    w[i].pc = "albumret" =>
      /\ w[i].ret.ok <=> (\A j \in 1..Len(w[i].jres) : w[i].jres[j].ok)
      /\ ~w[i].ret.ok =>
           /\ Len(w[i].ret.tracks) = Cardinality(FailedJobs(w[i].jres))
           /\ \A k \in 1..Len(w[i].ret.tracks) :
                w[i].ret.tracks[k] = w[i].jres[KthFailed(w[i].jres, k)].diag

\* An album returned failure with two failed tracks (and one good one
\* between or around them).
C4_Witness ==
  \E i \in Tasks :
    /\ w[i].pc = "albumret" /\ ~w[i].ret.ok
    /\ Cardinality(FailedJobs(w[i].jres)) >= 2
    /\ \E j \in 1..Len(w[i].jres) : w[i].jres[j].ok

AllJobsReturned(i) ==
  /\ \A j \in 1..Len(w[i].jst) : w[i].jst[j] = "done" /\ w[i].jres[j] # Pending
  /\ Len(w[i].jres) = Len(w[i].tracks)

\* C5: in both modes, once an album's track jobs are dispatched every job
\* eventually returns an outcome, whatever the other jobs returned, and
\* every job that returned success has written its output file.
C5_EveryTrackRuns ==
  /\ \A i \in 1..MaxTasks :
       (i <= N /\ w[i].pc = "split") ~> (i <= N /\ w[i].pc = "albumret" /\ AllJobsReturned(i))
  /\ [](\A i \in Tasks : \A j \in 1..Len(w[i].jres) :
          w[i].jres[j].ok => j \in produced[i])

\* Sequential mode: an earlier track failed and a later one was split.
C5_Witness ==
  \E i \in Tasks :
    /\ w[i].pc = "albumret" /\ w[i].pool = 0 /\ AllJobsReturned(i)
    /\ \E j, k \in 1..Len(w[i].jres) :
         j < k /\ ~w[i].jres[j].ok /\ w[i].jres[k].ok /\ k \in produced[i]

\* C6: a track pool and the album pool never exist together; with more than
\* one task no album gets a track pool; a track pool exists only in a round
\* of exactly one task.
C6_OneLevelOfConcurrency ==
  /\ album_pool > 0 => \A i \in Tasks : w[i].pool = 0
  /\ \A i \in Tasks : w[i].pool > 0 => (N = 1 /\ album_pool = 0)
  /\ (N > 1 /\ bpc = "run") => (album_pool > 0 /\ \A i \in Tasks : w[i].pool = 0)

\* An album-pool worker splitting a two-track album without a track pool.
C6_Witness ==
  /\ album_pool > 0
  /\ \E i \in Tasks :
       w[i].pc = "split" /\ Len(w[i].tracks) > 1 /\ w[i].pool = 0 /\ Running(i) # {}

\* Engine invocations in progress: duration probes and ffmpeg splits.
RECURSIVE SumOver(_, _)
SumOver(f, S) ==
  IF S = {} THEN 0 ELSE LET x == CHOOSE y \in S : TRUE IN f[x] + SumOver(f, S \ {x})
EnginesRunning ==
  SumOver([i \in Tasks |-> (IF w[i].pc = "probing" THEN 1 ELSE 0)
                           + Cardinality(Running(i))], Tasks)
\* The jobs of the round: the albums of a multi-album round, the tracks of
\* the single album once they are dispatched.
JobsInRound ==
  IF N > 1 THEN N
  ELSE IF w[1].pc = "split" THEN Len(w[1].tracks) ELSE 1

\* C7: at any time at most min(cpu_count, jobs of the round, 4) engine
\* invocations run, hence never more than 4.
C7_BoundedEngines ==
  bpc = "run" =>
    /\ EnginesRunning <= Min2(Min2(cpu_count, JobsInRound), 4)
    /\ EnginesRunning <= 4

\* Five tracks dispatched on eight CPUs: four run, one waits.
C7_Witness ==
  /\ N = 1 /\ w[1].pc = "split" /\ Len(w[1].tracks) >= 5 /\ cpu_count > 4
  /\ EnginesRunning = 4
  /\ \E j \in 1..Len(w[1].jst) : w[1].jst[j] = "wait"

\* C8: an album whose parsed track list is empty ends as a failure, with no
\* resolution, directory creation, probe or split done for it.
C8_EmptyAlbumRejectedFirst ==
  \A i \in Tasks :
    empty_parse[i] =>
      /\ fx[i] = {} /\ produced[i] = {}
      /\ w[i].pc = "done" /\ ~outcome[i].ok /\ outcome[i].kind = "no_tracks"

C8_Witness ==
  \E i \in Tasks : empty_parse[i] /\ bpc = "ended" /\ ~results[i].ok

\* C10: whatever order the workers return in, the i-th aggregated outcome
\* is task i's, and the failure entries follow task order.
TaskIndex(name) == CHOOSE i \in Tasks : tasks[i] = name
C10_ResultsInTaskOrder ==
  /\ Collected =>
       /\ Len(results) = N
       /\ \A i \in Tasks : results[i] = outcome[i] /\ results[i].name = tasks[i]
  /\ Aggregated =>
       \A k, l \in 1..Len(error_logs) :
         k < l => TaskIndex(error_logs[k].album) < TaskIndex(error_logs[l].album)

\* The second task returned before the first, with different outcomes, and
\* both are in the log in task order.
C10_Witness ==
  /\ bpc = "ended" /\ N >= 2
  /\ done_order[1] = 2
  /\ ~results[1].ok /\ ~results[2].ok /\ results[1].kind # results[2].kind
  /\ Len(error_logs) = 2

\* ----------------------------------------------------- resolver claims
\* C9: a named file that exists in the source directory is used; otherwise
\* the candidates are the directory's entries (as os.listdir gives them)
\* whose root is the cue sheet's root and whose extension, lower-cased, is a
\* supported one; resolution succeeds, with that entry, iff there is exactly
\* one, and fails with the count otherwise.
C9Candidates ==
  { e \in source_listing :
      /\ e.base = task_name.base
      /\ \E x \in SUPPORTED_AUDIO_EXTENSIONS : Lower(e.ext) = x }
C11_LogWrittenAfterRound ==
  [][log' # log =>
       /\ bpc = "log" /\ bpc' = "summary"
       /\ \A i \in Tasks : w[i].pc = "done"
       /\ w' = w /\ outcome' = outcome
       /\ log' = Append(log, error_logs)]_vars

\* A round of several albums run by the album pool, one of which failed:
\* its section is in the log.
C11_Witness ==
  /\ N > 1 /\ album_pool > 0 /\ log # <<>>
  /\ \E i \in Tasks : failed[i] # "none"
  /\ \E i \in Tasks : failed[i] = "none"

\* C12: every batch round ends with its summary (success count and failure
\* count) produced, including when the failure log cannot be opened or
\* written.
C12_SummaryAlwaysProduced ==
  bpc \in {"ended", "crashed"} =>
    /\ summary # NoSummary
    /\ summary.success = success_count
    /\ summary.failure = N - success_count

\* ------------------------------------------------ output-directory claims
\* The album tasks that are inside process_album, their output directory
\* made.
InAlbum(i) == w[i].pc \in {"probe", "probing", "split", "albumret"}

\* C13: two distinct album tasks of a round that run at the same time never
\* have the same output directory.
C13_DistinctOutputDirectories ==
  \A i, j \in Tasks :
    (i # j /\ InAlbum(i) /\ InAlbum(j)) => w[i].output_path # w[j].output_path

\* What the code does give: albums found in different directories never
\* share an output directory.
DistinctOutputDirectoriesAcrossSourceDirs ==
  \A i, j \in Tasks :
    (i # j /\ InAlbum(i) /\ InAlbum(j) /\ source_dir[i] # source_dir[j])
      => w[i].output_path # w[j].output_path

\* ------------------------------------------------------- probe claims
Last(i) == Len(w[i].tracks)
Started(i, j) == w[i].jst[j] # "wait" /\ w[i].jcmd[j] # NoCommand

\* C14: once the probe is over and while the tracks are split, the last
\* track's end_time is the probed duration if the probe matched; if it did
\* not, the album goes on, the last track's end_time is None and its ffmpeg
\* command has no -to; every other track's end_time is as parse returned it.
C14_LastTrackEndFromProbe ==
  \A i \in Tasks :
    w[i].pc \in {"split", "albumret"} /\ w[i].jst # <<>> =>
      /\ w[i].dur_match # <<>> =>
           /\ w[i].objs[w[i].tracks[Last(i)]].end_time = ProbeDuration(w[i].dur_match)
           /\ Started(i, Last(i)) => w[i].jcmd[Last(i)].to = ProbeDuration(w[i].dur_match)
      /\ w[i].dur_match = <<>> =>
           /\ w[i].objs[w[i].tracks[Last(i)]].end_time = None
           /\ Started(i, Last(i)) => w[i].jcmd[Last(i)].to = None
           /\ w[i].pc = "albumret" =>
                (w[i].ret.ok <=> \A j \in 1..Len(w[i].jres) : w[i].jres[j].ok)
      /\ \A j \in 1..(Last(i) - 1) :
           /\ w[i].objs[w[i].tracks[j]].end_time = w[i].parsed[w[i].tracks[j]].end_time
           /\ Started(i, j) =>
                w[i].jcmd[j].to = w[i].parsed[w[i].tracks[j]].end_time

\* What the code does give: the same, for the albums whose track list holds
\* no dict twice.
NoDuplicateTrack(i) ==
  \A j, k \in 1..Len(w[i].tracks) : w[i].tracks[j] = w[i].tracks[k] => j = k
LastTrackEndFromProbeWithoutDuplicates ==
  (\A i \in Tasks : NoDuplicateTrack(i)) => C14_LastTrackEndFromProbe

\* ---------------------------------------------------- timestamp claims
IndexTimeStamp == cue_content_lines[2].ts
IsThreeIntegers(ts) == Len(ts) = 3 /\ \A k \in 1..3 : ts[k] \in Nat
FramesOf(ts) == (ts[1] * 60 + ts[2]) * FramesPerSecond + ts[3]

\* C15: after `INDEX 01 mm:ss:ff` inside a track, the track's start_time is
\* (mm*60 + ss)*75 + ff frames of 1/75 s (9262 frames for 02:03:37); a
\* timestamp that is not three colon-separated integers gives 0; parse
\* raises in neither case.
C15_StartTimeFromTimestamp ==
  /\ ppc # "raised"
  /\ (ppc = "loop" /\ lineNo = 3) \/ ppc = "returned" =>
       LET start_time == IF ppc = "returned" THEN RetTrack(1).start_time
                         ELSE pst.objs[pst.current_track_info].start_time
       IN /\ IsThreeIntegers(IndexTimeStamp) =>
               start_time * FramesPerSecond = FramesOf(IndexTimeStamp) * TicksPerSecond
          /\ IndexTimeStamp = <<2, 3, 37>> =>
               start_time * FramesPerSecond = 9262 * TicksPerSecond
          /\ ~IsThreeIntegers(IndexTimeStamp) => start_time = 0

\* 02:03:37 was parsed and returned as 9262 frames.
C15_Witness ==
  /\ ppc = "returned" /\ IndexTimeStamp = <<2, 3, 37>>
  /\ RetTrack(1).start_time = 9262 * TicksPerFrame

\* --------------------------------------------------- album-record claims
CurLine == cue_content_lines[lineNo]
Building == pst.current_track_info # 0
CurTrack(st) == st.objs[st.current_track_info]

\* C16: once a TRACK directive has been accepted no later line changes the
\* album record: FILE is ignored, TITLE and PERFORMER go to the current
\* track, REM REPLAYGAIN_ALBUM_* is dropped; before that, FILE, TITLE,
\* PERFORMER and REM REPLAYGAIN_ALBUM_* set the album record's file, title,
\* performer and album ReplayGain fields; parse returns that album record.
C16_AlbumRecordFrozenByFirstTrack ==
  [][/\ (ppc = "loop" /\ lineNo' = lineNo + 1 /\ Building) =>
          /\ pst'.album_data = pst.album_data
          /\ CurLine.cmd = "TITLE" => CurTrack(pst').title = TextTitle(CurLine.text)
          /\ CurLine.cmd = "PERFORMER" => CurTrack(pst').performer = CurLine.text
          /\ CurLine.cmd \in {"FILE", "REM"} /\ ~KeyHasTrack(CurLine.key) => pst' = pst
     /\ (ppc = "loop" /\ lineNo' = lineNo + 1 /\ ~Building) =>
          /\ CurLine.cmd = "FILE" =>
               pst'.album_data = [pst.album_data EXCEPT !.file = CurLine.file]
          /\ CurLine.cmd = "TITLE" =>
               pst'.album_data = [pst.album_data EXCEPT !.title = CurLine.text]
          /\ CurLine.cmd = "PERFORMER" =>
               pst'.album_data = [pst.album_data EXCEPT !.performer = CurLine.text]
          /\ CurLine.cmd = "REM" /\ KeyHasAlbum(CurLine.key) =>
               pst'.album_data = [pst.album_data EXCEPT !.rg = @ \cup {CurLine.key}]
     /\ (ppc = "loop" /\ ppc' = "returned") => ret'.album = pst.album_data]_vars

\* TITLE before the first track, then FILE and PERFORMER after it: the
\* album has the title and nothing else, the track has the performer.
C16_Witness ==
  /\ ppc = "returned"
  /\ cue_content_lines = <<TextLineOf("TITLE", TRUE, "T"), TrackLineOf(1),
                           FileLineOf(TRUE, FileName("x", ".wav")),
                           TextLineOf("PERFORMER", TRUE, "P")>>
  /\ ret.album = [EmptyAlbum EXCEPT !.title = "T"]
  /\ RetTrack(1).performer = "P"

\* C17: when the cue text yields no tracks, parse returns an empty album
\* record and an empty track list, whatever album-level directives the
\* text held.
C17_NoTracksGivesEmptyAlbum ==
  (ppc = "returned" /\ ret.tracks = <<>>) => ret.album = EmptyAlbum

\* What the code does give: with no tracks the track list is empty and the
\* album record is the one the album-level directives built.
NoTracksGivesAlbumAsBuilt ==
  (ppc = "returned" /\ ret.tracks = <<>>) =>
    /\ ret.album = pst.album_data
    /\ cue_content_lines = <<>> => ret.album = EmptyAlbum

\* ------------------------------------------------ sequential-mode claims
Sequential(i) == w[i].pc \in {"split", "albumret"} /\ w[i].jst # <<>> /\ w[i].pool = 0
TrackNumber(i, j) == w[i].objs[w[i].tracks[j]].number
StartedJobs(i) == { j \in 1..Len(w[i].jst) : w[i].jst[j] # "wait" }

\* The jobs of a sequential album run one at a time in list order, and the
\* progress lines name them in that order.
OneAtATimeInListOrder(i) ==
  /\ Cardinality(Running(i)) <= 1
  /\ \A j, k \in 1..Len(w[i].jst) :
       (j < k /\ w[i].jst[k] # "wait") => w[i].jst[j] = "done"
  /\ Len(w[i].progress) = Cardinality(StartedJobs(i))
  /\ \A p \in 1..Len(w[i].progress) : w[i].progress[p] = p

\* C18: in sequential mode the track jobs of an album are started one at a
\* time, each after the previous one has finished, in ascending
\* track-number order, and the progress lines are emitted in that order.
C18_SequentialInTrackNumberOrder ==
  \A i \in Tasks :
    Sequential(i) =>
      /\ OneAtATimeInListOrder(i)
      /\ \A j, k \in 1..Len(w[i].jst) : j < k => TrackNumber(i, j) < TrackNumber(i, k)

\* What the code does give: one at a time in list order, always; in
\* ascending track-number order when the track list holds no dict twice.
SequentialInListOrder ==
  \A i \in Tasks :
    Sequential(i) =>
      /\ OneAtATimeInListOrder(i)
      /\ NoDuplicateTrack(i) =>
           \A j, k \in 1..Len(w[i].jst) : j < k => TrackNumber(i, j) < TrackNumber(i, k)

\* ------------------------------------------------- parser safety claims
\* C19: for every sequence of input lines parse returns without raising,
\* and every track record it returns has a start_time, also when a TRACK
\* block holds no INDEX 01 line.
C19_ParseNeverRaises ==
  /\ ppc # "raised"
  /\ ppc = "returned" => \A i \in 1..Len(ret.tracks) : RetTrack(i).start_time # Absent

\* What the code does give: no exception and a start_time in every record
\* when every TRACK block holds an INDEX 01 line.
ParseNeverRaisesWithIndexInEveryBlock ==
  (\A i \in 1..Len(cue_content_lines) :
     cue_content_lines[i].cmd = "TRACK" => HasIndex01(cue_content_lines, i))
  => C19_ParseNeverRaises

NoDuplicateIn(tracks) == \A i, j \in 1..Len(tracks) : tracks[i] = tracks[j] => i = j

\* C20: a track record is appended to the list once, so no record is in the
\* list twice, neither while parsing nor in what parse returns, and a
\* record in the list is not changed by a later line; in particular not
\* after a TRACK directive whose argument has no number.
C20_TrackFinalizedOnce ==
  [][/\ (ppc = "loop" /\ lineNo' = lineNo + 1) =>
          /\ NoDuplicateIn(pst'.tracks_data)
          /\ \A k \in 1..Len(pst.tracks_data) :
               pst'.objs[pst.tracks_data[k]] = pst.objs[pst.tracks_data[k]]
     /\ (ppc = "loop" /\ ppc' # "loop") => NoDuplicateIn(ret'.tracks)]_vars

\* What the code does give: the same, on cue text whose TRACK directives
\* all carry a number.
TrackFinalizedOnceWhenNumbered ==
  [][(\A i \in 1..Len(cue_content_lines) :
        cue_content_lines[i].cmd = "TRACK" => cue_content_lines[i].num # NoNumber)
     => /\ (ppc = "loop" /\ lineNo' = lineNo + 1) =>
             /\ NoDuplicateIn(pst'.tracks_data)
             /\ \A k \in 1..Len(pst.tracks_data) :
                  pst'.objs[pst.tracks_data[k]] = pst.objs[pst.tracks_data[k]]
        /\ (ppc = "loop" /\ ppc' # "loop") => NoDuplicateIn(ret'.tracks)]_vars

\* --------------------------------------------------- output-file claims
\* C21: within one album, distinct track jobs write to distinct output
\* file paths; in particular two jobs of a track pool that run at the same
\* time never write the same file.
C21_DistinctOutputFiles ==
  \A i \in Tasks :
    w[i].pc \in {"split", "albumret"} /\ w[i].jst # <<>> =>
      \A j, k \in 1..Len(w[i].jst) :
        (j # k /\ Started(i, j) /\ Started(i, k)) => w[i].jout[j] # w[i].jout[k]

\* What the code does give: the same, for the jobs of one album whose
\* track numbers differ.
DistinctOutputFilesForDistinctNumbers ==
  \A i \in Tasks :
    w[i].pc \in {"split", "albumret"} /\ w[i].jst # <<>> =>
      \A j, k \in 1..Len(w[i].jst) :
        (j # k /\ Started(i, j) /\ Started(i, k)
         /\ TrackNumber(i, j) # TrackNumber(i, k)) => w[i].jout[j] # w[i].jout[k]

====
